---------------------------- MODULE Spec2Model ----------------------------
(***************************************************************************)
(* A model of package cmdp (src/cmdp.go): a console command processor.     *)
(*                                                                         *)
(* Go strings are modelled as sequences of one-character strings, so that  *)
(* trimming, splitting and case folding are computed and not assumed.      *)
(* Three threads of control are modelled: the caller of Start, the         *)
(* goroutine processCmdLn (the dispatch loop) and the goroutine            *)
(* responseFetch (the line reader).  The two channels are unbuffered, so a *)
(* send and its receive are one joint step.                                *)
(***************************************************************************)
EXTENDS Naturals, Sequences, FiniteSets, TLC

VARIABLES
    cds,          \* the []Cdef handed to Start
    source,       \* the whole byte stream behind rCmdLn (never changes)
    srcEnds,      \* TRUE: the stream ends (io.EOF); FALSE: it blocks at its end
    src,          \* the part of the stream not yet consumed by ReadString
    callerPc,     \* position of the caller of Start
    probes,       \* <<k>> once a 'false' was received, the first after k lines
    shutdown,     \* what Start returned as the handle: "nil" or "chan"
    err,          \* what Start returned as the error
    shutdownCh,   \* state of the shutdown channel: "none", "open", "closed"
    closeCount,   \* number of close(shutdown) executed
    spawned,      \* number of processCmdLn goroutines launched
    cmmds,        \* the validated table handed to processCmdLn
    loopPc,       \* position of processCmdLn
    cur,          \* the line being dispatched by cmdParseRun
    readerPc,     \* position of responseFetch
    cmdLn,        \* the line responseFetch holds for sending
    respCh,       \* state of the response channel: "none", "open", "closed"
    respCloses,   \* number of close(resp) executed
    dispatched,   \* history: the lines handed to cmdParseRun, in order
    outcomes,     \* history: how cmdParseRun ended for each dispatched line
    calls,        \* history: the Parse and Run invocations and their returns
    stderr,       \* history: the diagnostics written to os.Stderr
    exitCause,    \* history: which return statement ended processCmdLn
    fnLine,       \* input of the pure-function specification: a raw line
    fnTable,      \* input of the pure-function specification: a []Cdef
    fnPc,         \* position of the pure-function specification
    fnOut         \* result computed by the pure-function specification

vars == <<cds, source, srcEnds, src, callerPc, probes, shutdown, err,
          shutdownCh, closeCount, spawned, cmmds, loopPc, cur, readerPc,
          cmdLn, respCh, respCloses, dispatched, outcomes, calls, stderr,
          exitCause, fnLine, fnTable, fnPc, fnOut>>

procVars == <<cds, source, srcEnds, src, callerPc, probes, shutdown, err,
              shutdownCh, closeCount, spawned, cmmds, loopPc, cur, readerPc,
              cmdLn, respCh, respCloses, dispatched, outcomes, calls, stderr,
              exitCause>>

fnVars == <<fnLine, fnTable, fnPc, fnOut>>

---------------------------------------------------------------------------
(* Bounds of the model.                                                    *)

\* Longest raw line enumerated by the pure-function specification.
MaxLineLen == 4

\* Most complete lines in the byte stream of the process specification.
MaxLines == 2

---------------------------------------------------------------------------
(* Strings.                                                                *)

SP  == " "
TAB == "\t"
NL  == "\n"

\* unicode.IsSpace as used by strings.TrimSpace, on the characters modelled.
IsSpace(c) == c \in {" ", "\t", "\n", "\r", "\f"}

\* unicode.ToLower on one character.
LowerChar(c) ==
    CASE c = "R" -> "r"
      [] c = "U" -> "u"
      [] c = "N" -> "n"
      [] c = "A" -> "a"
      [] c = "W" -> "w"
      [] c = "Y" -> "y"
      [] c = "X" -> "x"
      [] OTHER   -> c

\* strings.ToLower
ToLower(s) == [i \in 1..Len(s) |-> LowerChar(s[i])]

\* strings.TrimSpace: start moves right past the leading white space, stop
\* moves left past the trailing white space, and s[start:stop] is returned.
TrimStart(s) ==
    IF \A i \in 1..Len(s) : IsSpace(s[i]) THEN Len(s) + 1
    ELSE CHOOSE i \in 1..Len(s) : ~IsSpace(s[i]) /\ \A j \in 1..(i - 1) : IsSpace(s[j])

TrimStop(s) ==
    IF \A i \in 1..Len(s) : IsSpace(s[i]) THEN 0
    ELSE CHOOSE i \in 1..Len(s) : ~IsSpace(s[i]) /\ \A j \in (i + 1)..Len(s) : IsSpace(s[j])

TrimSpace(s) == SubSeq(s, TrimStart(s), TrimStop(s))

\* strings.Index(s, c) for a one-character separator, 1-based; 0 when absent.
IndexOf(s, c) ==
    IF \E i \in 1..Len(s) : s[i] = c
    THEN CHOOSE i \in 1..Len(s) : s[i] = c /\ \A j \in 1..(i - 1) : s[j] # c
    ELSE 0

\* strings.SplitAfterN(s, sep, 2) for a one-character separator: the text up
\* to and including the first separator, then the rest; one piece when the
\* separator does not occur.
SplitAfterN2(s, sep) ==
    LET i == IndexOf(s, sep) IN
    IF i = 0 THEN <<s>>
    ELSE <<SubSeq(s, 1, i), SubSeq(s, i + 1, Len(s))>>


---------------------------------------------------------------------------
(* Errors.  A Go error is nil or carries a text; the text is kept as the   *)
(* sequence of its reports.                                                *)

NilErr == [isNil |-> TRUE, text |-> <<>>]

\* fmt.Errorf with one report: what is reported (kind) and about whom (ref).
Errorf(kind, ref) == [isNil |-> FALSE, text |-> <<[kind |-> kind, ref |-> ref]>>]

\* What the verb %s prints for an error value: fmt renders a nil error as
\* the text %!s(<nil>).
ErrText(e) ==
    IF e.isNil THEN <<[kind |-> "%!s(<nil>)", ref |-> <<>>]>> ELSE e.text

errorsConcat(errs, e) == [isNil |-> FALSE, text |-> ErrText(errs) \o ErrText(e)]

---------------------------------------------------------------------------
(* Command definitions.  Parse is "nil", "pn" (ParseNone) or "user" (a     *)
(* caller's Parser); Run is "nil", "help" (RunHelp) or "user".             *)

\* strconv.Itoa for the indices the model uses.
Itoa(i) == <<<<"0", "1", "2", "3", "4", "5", "6", "7", "8", "9">>[i + 1]>>

\* The zero value of cdef, left in the table for a definition that failed.
ZeroCdef ==
    [Cdef |-> [NmShort |-> <<>>, NmLong |-> <<>>, Help |-> <<>>,
               Parse |-> "nil", Run |-> "nil"],
     nmShortL |-> <<>>, nmLongL |-> <<>>, patched |-> FALSE]

\* Mutant of cdefVerify: the Help text is not checked.
cdefVerifySkipsHelp(c, altNm) ==
    LET cdefRef == IF c.NmLong = <<>> THEN altNm ELSE c.NmLong
        e1 == IF c.NmLong = <<>>
              THEN errorsConcat(NilErr, Errorf("long name missing", cdefRef))
              ELSE IF Len(c.NmShort) > Len(c.NmLong)
                   THEN errorsConcat(NilErr, Errorf("short name too long", cdefRef))
                   ELSE NilErr
        e2 == IF c.Parse = "nil"
              THEN errorsConcat(e1, Errorf("Parse missing", cdefRef))
              ELSE e1
        e3 == IF c.Run = "nil"
              THEN errorsConcat(e2, Errorf("Run missing", cdefRef))
              ELSE e2
    IN e3

cdefVerify(c, altNm) ==
    LET cdefRef == IF c.NmLong = <<>> THEN altNm ELSE c.NmLong
        e1 == IF c.NmLong = <<>>
              THEN errorsConcat(NilErr, Errorf("long name missing", cdefRef))
              ELSE IF Len(c.NmShort) > Len(c.NmLong)
                   THEN errorsConcat(NilErr, Errorf("short name too long", cdefRef))
                   ELSE NilErr
        e2 == IF c.Parse = "nil"
              THEN errorsConcat(e1, Errorf("Parse missing", cdefRef))
              ELSE e1
        e3 == IF c.Run = "nil"
              THEN errorsConcat(e2, Errorf("Run missing", cdefRef))
              ELSE e2
        e4 == IF c.Help = <<>>
              THEN errorsConcat(e3, Errorf("Help missing", cdefRef))
              ELSE e3
    IN e4

\* Mutant of cdefNew: the names are stored as given, not in lower case.
cdefNewNoFold(cPub) ==
    [Cdef |-> cPub,
     nmShortL |-> cPub.NmShort,
     nmLongL |-> cPub.NmLong,
     patched |-> (cPub.Run = "help")]

\* The table entry validate builds for a verified definition: the
\* definition, its two names in lower case, and whether its help runner was
\* patched with the table.
cdefNew(cPub) ==
    [Cdef |-> cPub,
     nmShortL |-> ToLower(cPub.NmShort),
     nmLongL |-> ToLower(cPub.NmLong),
     patched |-> (cPub.Run = "help")]

\* Mutant of validateFrom: the loop stops at the first definition that fails.
RECURSIVE validateFromStops(_, _, _, _)
validateFromStops(defs, i, tbl, errs) ==
    IF i > Len(defs) THEN [cs |-> [isNil |-> FALSE, cmmds |-> tbl], errs |-> errs]
    ELSE LET e == cdefVerify(defs[i], Itoa(i - 1)) IN
         IF ~e.isNil
         THEN [cs |-> [isNil |-> FALSE, cmmds |-> tbl], errs |-> errorsConcat(errs, e)]
         ELSE validateFromStops(defs, i + 1, [tbl EXCEPT ![i] = cdefNew(defs[i])], errs)

\* The loop of validate over the definitions from index i on (1-based here,
\* 0-based in the messages, as in the source).
RECURSIVE validateFrom(_, _, _, _)
validateFrom(defs, i, tbl, errs) ==
    IF i > Len(defs) THEN [cs |-> [isNil |-> FALSE, cmmds |-> tbl], errs |-> errs]
    ELSE LET e == cdefVerify(defs[i], Itoa(i - 1)) IN
         IF ~e.isNil
         THEN validateFrom(defs, i + 1, tbl, errorsConcat(errs, e))
         ELSE validateFrom(defs, i + 1, [tbl EXCEPT ![i] = cdefNew(defs[i])], errs)

NilCmds == [isNil |-> TRUE, cmmds |-> <<>>]

validate(defs) ==
    IF Len(defs) < 1
    THEN [cs |-> NilCmds, errs |-> Errorf("commands not defined", <<>>)]
    ELSE validateFrom(defs, 1, [i \in 1..Len(defs) |-> ZeroCdef], NilErr)

---------------------------------------------------------------------------
(* Normalisation and lookup.                                               *)

\* Mutant of cmdNormalize: the text after the first space is not trimmed.
cmdNormalizeArgUntrimmed(cmdln) ==
    CHOOSE r \in
        { [cmdNm  |-> ToLower(TrimSpace(cmdls[1])),
           cmdArg |-> IF Len(cmdls) > 1 THEN cmdls[2] ELSE <<>>] :
          cmdls \in { SplitAfterN2(trimmed, SP) : trimmed \in {TrimSpace(cmdln)} } } : TRUE

\* Mutant of cmdNormalize: the remainder is taken from the whole line
\* instead of from the second piece of the split.
cmdNormalizeArgWholeLine(cmdln) ==
    CHOOSE r \in
        { [cmdNm  |-> ToLower(TrimSpace(cmdls[1])),
           cmdArg |-> IF Len(cmdls) > 1 THEN TrimSpace(cmdln) ELSE <<>>] :
          cmdls \in { SplitAfterN2(trimmed, SP) : trimmed \in {TrimSpace(cmdln)} } } : TRUE

\* The two local variables of cmdNormalize are bound as values (x \in {e}),
\* so that each is computed once, as in the source.
cmdNormalize(cmdln) ==
    CHOOSE r \in
        { [cmdNm  |-> ToLower(TrimSpace(cmdls[1])),
           cmdArg |-> IF Len(cmdls) > 1 THEN TrimSpace(cmdls[2]) ELSE <<>>] :
          cmdls \in { SplitAfterN2(trimmed, SP) : trimmed \in {TrimSpace(cmdln)} } } : TRUE

\* Whether table entry c answers to the name cmdNm.
cmdMatches(c, cmdNm) == cmdNm = c.nmShortL \/ cmdNm = c.nmLongL

\* Mutant of cmdSelect: the scan does not stop at the first match, so the
\* last matching entry is returned.
cmdSelectLast(cmds, cmdNm) ==
    LET ms == {i \in 1..Len(cmds) : cmdMatches(cmds[i], cmdNm)} IN
    IF ms = {} THEN [idx |-> 0, err |-> Errorf("unknown command", cmdNm)]
    ELSE [idx |-> CHOOSE i \in ms : \A j \in ms : j <= i, err |-> NilErr]

\* The range loop of cmdSelect from entry i on.  idx is the 1-based position
\* of the entry returned, 0 with the error.
RECURSIVE cmdSelectFrom(_, _, _)
cmdSelectFrom(cmds, i, cmdNm) ==
    IF i > Len(cmds) THEN [idx |-> 0, err |-> Errorf("unknown command", cmdNm)]
    ELSE IF cmdMatches(cmds[i], cmdNm) THEN [idx |-> i, err |-> NilErr]
    ELSE cmdSelectFrom(cmds, i + 1, cmdNm)

cmdSelect(cmds, cmdNm) == cmdSelectFrom(cmds, 1, cmdNm)

\* The string cmdParseRun hands to Parse.
ParseInput(n) == n.cmdNm \o <<SP>> \o n.cmdArg

---------------------------------------------------------------------------
(* The inputs the specifications draw from.                                *)

sRun == <<"R", "u", "n">>
sr   == <<"r">>
sx   == <<"x">>
sHelpText == <<"h">>

Def(short, long, help, parse, run) ==
    [NmShort |-> short, NmLong |-> long, Help |-> help, Parse |-> parse, Run |-> run]

\* Every one-definition table over a few values of each attribute: two of
\* them are well-formed, the others break one or more of the requirements.
OneDefTables ==
    { <<Def(s, l, h, p, r)>> :
        s \in {<<>>, sr, <<"R", "u", "n", "n">>}, l \in {<<>>, sRun},
        h \in {<<>>, sHelpText}, p \in {"nil", "user"}, r \in {"nil", "user"} }

\* Tables of two definitions: two sharing the short name, one using
\* ParseNone and RunHelp, one whose second definition is malformed.
TwoDefTables ==
    { <<Def(sr, sRun, sHelpText, "user", "user"), Def(sr, sx, sHelpText, "pn", "help")>>,
      <<Def(<<>>, sx, sHelpText, "pn", "help"), Def(sr, sRun, sHelpText, "user", "user")>>,
      <<Def(sr, sRun, sHelpText, "user", "user"), Def(sx, sx, <<>>, "pn", "nil")>> }

Tables == {<<>>} \cup OneDefTables \cup TwoDefTables

\* The lines a stream is made of, without their newline.
SampleLines == { <<"R", "u", "n", SP, "x">>, <<"R">>, <<>> }

\* What may follow the last newline of a stream.
SampleTails == { <<>>, <<"r">> }

RECURSIVE Flatten(_)
Flatten(ls) == IF ls = <<>> THEN <<>> ELSE Head(ls) \o <<NL>> \o Flatten(Tail(ls))

\* All sequences of at most n elements of S.
SeqsUpTo(S, n) == UNION { [1..k -> S] : k \in 0..n }

Sources == { Flatten(ls) \o tl : ls \in SeqsUpTo(SampleLines, MaxLines), tl \in SampleTails }

---------------------------------------------------------------------------
(* The line source: bufio.Reader.ReadString('\n') on what is left of the   *)
(* stream.  It returns the text up to and including the first newline; at  *)
(* the end of a stream that ends it returns what is left with an error.    *)

\* Mutant of ReadString: reads up to the last newline instead of the first.
ReadStringGreedy(s) ==
    LET nls == {i \in 1..Len(s) : s[i] = NL} IN
    IF nls # {}
    THEN LET i == CHOOSE x \in nls : \A y \in nls : y <= x IN
         [cmdLn |-> SubSeq(s, 1, i), rest |-> SubSeq(s, i + 1, Len(s)), failed |-> FALSE]
    ELSE [cmdLn |-> s, rest |-> <<>>, failed |-> TRUE]

\* Mutant of ReadString: at the end of the stream the text left over is
\* returned without the error.
ReadStringNoError(s) ==
    LET i == IndexOf(s, NL) IN
    IF i > 0
    THEN [cmdLn |-> SubSeq(s, 1, i), rest |-> SubSeq(s, i + 1, Len(s)), failed |-> FALSE]
    ELSE [cmdLn |-> s, rest |-> <<>>, failed |-> s = <<>>]

ReadString(s) ==
    LET i == IndexOf(s, NL) IN
    IF i > 0
    THEN [cmdLn |-> SubSeq(s, 1, i), rest |-> SubSeq(s, i + 1, Len(s)), failed |-> FALSE]
    ELSE [cmdLn |-> s, rest |-> <<>>, failed |-> TRUE]

\* ReadString returns: a newline is there, or the stream has ended.
ReadReturns(s, ends) == IndexOf(s, NL) > 0 \/ ends

---------------------------------------------------------------------------
(* The caller's callbacks.  ParseNone returns no arguments and no error;   *)
(* a caller's Parser may reject the line or return arguments; RunHelp      *)
(* returns no error; a caller's Runner may fail.                           *)

ParseResults(parser, n) ==
    IF parser = "pn" THEN { [ok |-> TRUE, args |-> <<>>] }
    ELSE { [ok |-> FALSE, args |-> <<>>],
           [ok |-> TRUE, args |-> <<n.cmdArg>>] }

RunResults(runner) == IF runner = "help" THEN {TRUE} ELSE {TRUE, FALSE}

Call(op, line, cmd, cmdln, args, ok) ==
    [op |-> op, line |-> line, cmd |-> cmd, cmdln |-> cmdln, args |-> args, ok |-> ok]

NoCur == [idx |-> 0, n |-> [cmdNm |-> <<>>, cmdArg |-> <<>>], args |-> <<>>]

NoOut ==
    [norm  |-> [cmdNm |-> <<>>, cmdArg |-> <<>>],
     again |-> [cmdNm |-> <<>>, cmdArg |-> <<>>],
     idx   |-> 0,
     valid |-> FALSE,
     errs  |-> NilErr,
     csNil |-> TRUE]

---------------------------------------------------------------------------
(* The process specification: the caller, processCmdLn and responseFetch.  *)

FnIdle == fnLine = <<>> /\ fnTable = <<>> /\ fnPc = "off" /\ fnOut = NoOut

ProcInit ==
    /\ cds = <<>>
    /\ source = <<>>
    /\ srcEnds = FALSE
    /\ src = <<>>
    /\ callerPc = "start"
    /\ probes = <<>>
    /\ shutdown = "nil"
    /\ err = NilErr
    /\ shutdownCh = "none"
    /\ closeCount = 0
    /\ spawned = 0
    /\ cmmds = <<>>
    /\ loopPc = "none"
    /\ cur = NoCur
    /\ readerPc = "none"
    /\ cmdLn = <<>>
    /\ respCh = "none"
    /\ respCloses = 0
    /\ dispatched = <<>>
    /\ outcomes = <<>>
    /\ calls = <<>>
    /\ stderr = <<>>
    /\ exitCause = "none"

Init == ProcInit /\ FnIdle

\* Whether start returns the error of validate instead of launching the loop.
StartRejects(v) == ~v.errs.isNil

\* start(cds, rCmdLn), on a table and a line source of the caller's choice:
\* validate, and only on success make the channel and launch the loop.
StartWith(tables, sources) ==
    /\ callerPc = "start"
    /\ cds' \in tables
    /\ source' \in sources
    /\ srcEnds' \in BOOLEAN
    /\ src' = source'
    /\ LET v == validate(cds') IN
       IF StartRejects(v)
       THEN /\ shutdown' = "nil"
            /\ err' = v.errs
            /\ callerPc' = "failed"
            /\ UNCHANGED <<shutdownCh, spawned, cmmds, loopPc>>
       ELSE /\ shutdown' = "chan"
            /\ err' = NilErr
            /\ shutdownCh' = "open"
            /\ spawned' = spawned + 1
            /\ cmmds' = v.cs.cmmds
            /\ loopPc' = "begin"
            /\ callerPc' = "running"
    /\ UNCHANGED <<probes, closeCount, cur, readerPc, cmdLn, respCh, respCloses,
                   dispatched, outcomes, calls, stderr, exitCause, fnVars>>

Start == StartWith(Tables, Sources)

\* The caller begins a send on the handle: shutdown <- true, or a false.
CallerSend ==
    /\ callerPc = "running"
    /\ \/ callerPc' = "sendTrue"
       \/ callerPc' = "sendFalse"
    /\ UNCHANGED <<cds, source, srcEnds, src, probes, shutdown, err, shutdownCh,
                   closeCount, spawned, cmmds, loopPc, cur, readerPc, cmdLn,
                   respCh, respCloses, dispatched, outcomes, calls, stderr,
                   exitCause, fnVars>>

\* A send on a closed channel panics.
CallerSendPanics ==
    /\ callerPc \in {"sendTrue", "sendFalse"}
    /\ shutdownCh = "closed"
    /\ callerPc' = "panic"
    /\ UNCHANGED <<cds, source, srcEnds, src, probes, shutdown, err, shutdownCh,
                   closeCount, spawned, cmmds, loopPc, cur, readerPc, cmdLn,
                   respCh, respCloses, dispatched, outcomes, calls, stderr,
                   exitCause, fnVars>>

\* <-shutdown after the send of true: returns once the channel is closed.
CallerConfirm ==
    /\ callerPc = "await"
    /\ shutdownCh = "closed"
    /\ callerPc' = "done"
    /\ UNCHANGED <<cds, source, srcEnds, src, probes, shutdown, err, shutdownCh,
                   closeCount, spawned, cmmds, loopPc, cur, readerPc, cmdLn,
                   respCh, respCloses, dispatched, outcomes, calls, stderr,
                   exitCause, fnVars>>

\* processCmdLn up to its loop: the deferred close is registered, and
\* responseConfig makes the response channel and launches responseFetch.
processCmdLnBegin ==
    /\ loopPc = "begin"
    /\ respCh' = "open"
    /\ readerPc' = "read"
    /\ loopPc' = "select"
    /\ UNCHANGED <<cds, source, srcEnds, src, callerPc, probes, shutdown, err,
                   shutdownCh, closeCount, spawned, cmmds, cur, cmdLn,
                   respCloses, dispatched, outcomes, calls, stderr, exitCause,
                   fnVars>>

\* responseFetch: one ReadString that returns a line.
responseFetchRead ==
    /\ readerPc = "read"
    /\ ReadReturns(src, srcEnds)
    /\ LET r == ReadString(src) IN
       /\ ~r.failed
       /\ cmdLn' = r.cmdLn
       /\ src' = r.rest
       /\ readerPc' = "send"
    /\ UNCHANGED <<cds, source, srcEnds, callerPc, probes, shutdown, err,
                   shutdownCh, closeCount, spawned, cmmds, loopPc, cur, respCh,
                   respCloses, dispatched, outcomes, calls, stderr, exitCause,
                   fnVars>>

\* Mutant of responseFetchFail: the channel is closed where the read fails
\* and the loop goes on reading.
responseFetchFailReadsOn ==
    /\ readerPc = "read"
    /\ ReadReturns(src, srcEnds)
    /\ LET r == ReadString(src) IN
       /\ r.failed
       /\ src' = r.rest
    /\ respCh' = "closed"
    /\ respCloses' = respCloses + 1
    /\ readerPc' = "read"
    /\ UNCHANGED <<cds, source, srcEnds, callerPc, probes, shutdown, err,
                   shutdownCh, closeCount, spawned, cmmds, loopPc, cur, cmdLn,
                   dispatched, outcomes, calls, stderr, exitCause, fnVars>>

\* responseFetch: ReadString fails; break, and the deferred close(resp).
responseFetchFail ==
    /\ readerPc = "read"
    /\ ReadReturns(src, srcEnds)
    /\ LET r == ReadString(src) IN
       /\ r.failed
       /\ src' = r.rest
    /\ respCh' = "closed"
    /\ respCloses' = respCloses + 1
    /\ readerPc' = "done"
    /\ UNCHANGED <<cds, source, srcEnds, callerPc, probes, shutdown, err,
                   shutdownCh, closeCount, spawned, cmmds, loopPc, cur, cmdLn,
                   dispatched, outcomes, calls, stderr, exitCause, fnVars>>

\* Mutant of LoopReturn: the handle is closed in place and the loop goes
\* round again.
LoopReturnGoesOn(cause) ==
    /\ loopPc' = "select"
    /\ shutdownCh' = "closed"
    /\ closeCount' = closeCount + 1
    /\ exitCause' = cause

\* The return statements of processCmdLn run the deferred close(shutdown).
LoopReturn(cause) ==
    /\ loopPc' = "exited"
    /\ shutdownCh' = "closed"
    /\ closeCount' = closeCount + 1
    /\ exitCause' = cause

\* cmdParseRun on the line the reader holds: its normal form and the table
\* entry selected for it.
lineNorm == cmdNormalize(cmdLn)
lineSel  == cmdSelect(cmmds, lineNorm.cmdNm)

\* The select case that receives a line (the reader's send completes), and
\* cmdParseRun up to its call of Parse.
processCmdLnLine ==
    /\ loopPc = "select"
    /\ readerPc = "send"
    /\ readerPc' = "read"
    /\ dispatched' = Append(dispatched, cmdLn)
    /\ stderr' = IF lineSel.err.isNil THEN stderr ELSE Append(stderr, lineSel.err)
    /\ outcomes' = IF lineSel.err.isNil THEN outcomes ELSE Append(outcomes, "unknown")
    /\ cur' = IF lineSel.err.isNil
              THEN [idx |-> lineSel.idx, n |-> lineNorm, args |-> <<>>]
              ELSE cur
    /\ calls' = IF lineSel.err.isNil
                THEN Append(calls, Call("Parse", Len(dispatched) + 1, lineSel.idx,
                                        ParseInput(lineNorm), <<>>, TRUE))
                ELSE calls
    /\ loopPc' = IF lineSel.err.isNil THEN "parse" ELSE loopPc
    /\ UNCHANGED <<cds, source, srcEnds, src, callerPc, probes, shutdown, err,
                   shutdownCh, closeCount, spawned, cmmds, cmdLn, respCh,
                   respCloses, exitCause, fnVars>>

\* Mutant of ParseRejected: the error of Parse is not looked at.
ParseRejectedNever(res) == FALSE

\* Whether cmdParseRun stops after Parse.
ParseRejected(res) == ~res.ok

\* Parse returns; on success cmdParseRun calls Run with the arguments.
cmdParseRunParsed ==
    /\ loopPc = "parse"
    /\ \E res \in ParseResults(cmmds[cur.idx].Cdef.Parse, cur.n) :
         LET k   == Len(dispatched)
             ret == Call("ParseRet", k, cur.idx, <<>>, res.args, res.ok)
         IN IF ParseRejected(res)
            THEN /\ calls' = Append(calls, ret)
                 /\ stderr' = Append(stderr, Errorf("parse", ParseInput(cur.n)))
                 /\ outcomes' = Append(outcomes, "parseErr")
                 /\ loopPc' = "select"
                 /\ cur' = NoCur
            ELSE /\ calls' = calls \o <<ret, Call("Run", k, cur.idx, <<>>, res.args, TRUE)>>
                 /\ cur' = [cur EXCEPT !.args = res.args]
                 /\ loopPc' = "run"
                 /\ UNCHANGED <<stderr, outcomes>>
    /\ UNCHANGED <<cds, source, srcEnds, src, callerPc, probes, shutdown, err,
                   shutdownCh, closeCount, spawned, cmmds, readerPc, cmdLn,
                   respCh, respCloses, dispatched, exitCause, fnVars>>

\* Mutant of cmdParseRunRan: a failed Run ends processCmdLn.
cmdParseRunRanFatal ==
    /\ loopPc = "run"
    /\ \E ok \in RunResults(cmmds[cur.idx].Cdef.Run) :
         /\ calls' = Append(calls, Call("RunRet", Len(dispatched), cur.idx, <<>>, <<>>, ok))
         /\ IF ok
            THEN /\ outcomes' = Append(outcomes, "ok")
                 /\ loopPc' = "select"
                 /\ UNCHANGED <<stderr, shutdownCh, closeCount, exitCause>>
            ELSE /\ outcomes' = Append(outcomes, "runErr")
                 /\ stderr' = Append(stderr, Errorf("run", ParseInput(cur.n)))
                 /\ LoopReturn("failure")
    /\ cur' = NoCur
    /\ UNCHANGED <<cds, source, srcEnds, src, callerPc, probes, shutdown, err,
                   spawned, cmmds, readerPc, cmdLn, respCh, respCloses,
                   dispatched, fnVars>>

\* Run returns; cmdParseRun returns to the loop either way.
cmdParseRunRan ==
    /\ loopPc = "run"
    /\ \E ok \in RunResults(cmmds[cur.idx].Cdef.Run) :
         /\ calls' = Append(calls, Call("RunRet", Len(dispatched), cur.idx, <<>>, <<>>, ok))
         /\ IF ok
            THEN outcomes' = Append(outcomes, "ok") /\ UNCHANGED stderr
            ELSE /\ outcomes' = Append(outcomes, "runErr")
                 /\ stderr' = Append(stderr, Errorf("run", ParseInput(cur.n)))
    /\ loopPc' = "select"
    /\ cur' = NoCur
    /\ UNCHANGED <<cds, source, srcEnds, src, callerPc, probes, shutdown, err,
                   shutdownCh, closeCount, spawned, cmmds, readerPc, cmdLn,
                   respCh, respCloses, dispatched, exitCause, fnVars>>

\* Mutant of processCmdLnClosed: the closed response channel is not acted
\* on, and the loop goes round again.
processCmdLnClosedIgnored ==
    /\ loopPc = "select"
    /\ respCh = "closed"
    /\ UNCHANGED vars

\* The select case that finds the response channel closed: return.
processCmdLnClosed ==
    /\ loopPc = "select"
    /\ respCh = "closed"
    /\ LoopReturn("closed")
    /\ UNCHANGED <<cds, source, srcEnds, src, callerPc, probes, shutdown, err,
                   spawned, cmmds, cur, readerPc, cmdLn, respCh, respCloses,
                   dispatched, outcomes, calls, stderr, fnVars>>

\* Mutant of ShutdownReturns: the test of the received value is inverted.
ShutdownReturnsNegated(sd) == ~sd

\* Mutant of ShutdownReturns: any received value ends the loop.
ShutdownReturnsAny(sd) == TRUE

\* Whether the loop returns on the value sd received from the handle.
ShutdownReturns(sd) == sd

\* The select case that receives from the handle (the caller's send
\* completes): return on true, go round again on false.
processCmdLnShutdown ==
    /\ loopPc = "select"
    /\ callerPc \in {"sendTrue", "sendFalse"}
    /\ shutdownCh = "open"
    /\ IF ShutdownReturns(callerPc = "sendTrue")
       THEN LoopReturn("shutdown")
       ELSE UNCHANGED <<loopPc, shutdownCh, closeCount, exitCause>>
    /\ IF callerPc = "sendTrue"
       THEN callerPc' = "await" /\ UNCHANGED probes
       ELSE callerPc' = "running" /\ probes' = IF probes = <<>> THEN <<Len(dispatched)>> ELSE probes
    /\ UNCHANGED <<cds, source, srcEnds, src, shutdown, err, spawned, cmmds,
                   cur, readerPc, cmdLn, respCh, respCloses, dispatched,
                   outcomes, calls, stderr, fnVars>>

Next ==
    \/ Start
    \/ CallerSend
    \/ CallerSendPanics
    \/ CallerConfirm
    \/ processCmdLnBegin
    \/ responseFetchRead
    \/ responseFetchFail
    \/ processCmdLnLine
    \/ cmdParseRunParsed
    \/ cmdParseRunRan
    \/ processCmdLnClosed
    \/ processCmdLnShutdown

Spec == Init /\ [][Next]_vars

\* The scheduling the Go runtime gives: a goroutine that can run does run,
\* Parse and Run return, and a select whose cases are ready again and again
\* takes each of them eventually (it chooses among the ready cases
\* uniformly at random).  Nothing is assumed of the caller.
Fairness ==
    /\ WF_vars(processCmdLnBegin)
    /\ WF_vars(responseFetchRead)
    /\ WF_vars(responseFetchFail)
    /\ WF_vars(processCmdLnLine)
    /\ WF_vars(cmdParseRunParsed)
    /\ WF_vars(cmdParseRunRan)
    /\ WF_vars(processCmdLnClosed)
    /\ SF_vars(processCmdLnShutdown)

\* The liveness specification starts the processor on the tables that pass
\* validation and on streams of fewer distinct lines.
FairTables ==
    { <<Def(sr, sRun, sHelpText, "user", "user")>>,
      <<Def(<<>>, sx, sHelpText, "pn", "help")>>,
      <<Def(sr, sRun, <<>>, "user", "user")>> }

FairLines == { <<"R", "u", "n", SP, "x">>, <<>> }

FairSources ==
    { Flatten(ls) \o tl : ls \in SeqsUpTo(FairLines, MaxLines), tl \in SampleTails }

StartFair == StartWith(FairTables, FairSources)

FairNext ==
    \/ StartFair
    \/ CallerSend
    \/ CallerSendPanics
    \/ CallerConfirm
    \/ processCmdLnBegin
    \/ responseFetchRead
    \/ responseFetchFail
    \/ processCmdLnLine
    \/ cmdParseRunParsed
    \/ cmdParseRunRan
    \/ processCmdLnClosed
    \/ processCmdLnShutdown

FairSpec == Init /\ [][FairNext]_vars /\ Fairness

---------------------------------------------------------------------------
(* The pure-function specification: cmdNormalize, validate and cmdSelect   *)
(* applied to every raw line of a bounded alphabet and to a few tables.    *)

FnChars == {"r", "R", "x", SP, TAB, NL}

\* The line of the normalisation example.
ExampleLine ==
    <<SP, SP, "R", "u", "n", SP, SP, SP, "A", "w", "a", "y", SP, SP, NL>>

FnLines == SeqsUpTo(FnChars, MaxLineLen) \cup {ExampleLine}

FnTables ==
    { <<Def(sr, <<"R", "x">>, sHelpText, "user", "user")>>,
      <<Def(<<"R">>, <<"r", "R">>, sHelpText, "user", "user"),
        Def(sx, <<"X", "x">>, sHelpText, "pn", "help")>>,
      <<Def(<<>>, sx, sHelpText, "pn", "help")>>,
      <<Def(sr, <<"r", "x">>, sHelpText, "user", "user"),
        Def(sr, <<"x", "r">>, sHelpText, "pn", "help")>>,
      <<Def(<<>>, <<"r", SP, "x">>, sHelpText, "user", "user")>>,
      <<Def(sr, <<>>, sHelpText, "user", "user"),
        Def(sx, <<"x", "x">>, sHelpText, "user", "user")>> }

FnInit ==
    /\ ProcInit
    /\ fnLine \in FnLines
    /\ fnTable \in FnTables
    /\ fnPc = "line"
    /\ fnOut = NoOut

\* cmdParseRun, first statement: the line is normalised.
FnNormalize ==
    /\ fnPc = "line"
    /\ fnOut' = [fnOut EXCEPT !.norm = cmdNormalize(fnLine)]
    /\ fnPc' = "normalized"
    /\ UNCHANGED <<fnLine, fnTable, procVars>>

\* The table is validated as by start and, when it passes, the normalised
\* name is looked up as by cmdParseRun.
FnSelect ==
    /\ fnPc = "normalized"
    /\ LET v == validate(fnTable) IN
       fnOut' = [fnOut EXCEPT
                   !.valid = v.errs.isNil,
                   !.errs = v.errs,
                   !.csNil = v.cs.isNil,
                   !.idx = IF v.errs.isNil
                           THEN cmdSelect(v.cs.cmmds, fnOut.norm.cmdNm).idx
                           ELSE 0]
    /\ fnPc' = "selected"
    /\ UNCHANGED <<fnLine, fnTable, procVars>>

\* The normalised pair, joined by one space as cmdParseRun joins it for
\* Parse, is normalised once more.
FnRenormalize ==
    /\ fnPc = "normalized"
    /\ fnOut' = [fnOut EXCEPT !.again = cmdNormalize(ParseInput(fnOut.norm))]
    /\ fnPc' = "renormalized"
    /\ UNCHANGED <<fnLine, fnTable, procVars>>

FnNext == FnNormalize \/ FnSelect \/ FnRenormalize

FnSpec == FnInit /\ [][FnNext]_vars

---------------------------------------------------------------------------
(* Claims.                                                                 *)

\* C1: once the caller is sending true on the handle of a started
\* processor, the dispatch loop eventually terminates with the handle
\* closed, whatever the line reader does meanwhile; the handle is never
\* closed twice, and it is closed exactly once when the loop has exited.
C1_ShutdownTerminates ==
    /\ (callerPc = "sendTrue") ~> (loopPc = "exited" /\ shutdownCh = "closed")
    /\ [](/\ closeCount <= 1
          /\ (shutdownCh = "closed") <=> (closeCount = 1)
          /\ (loopPc = "exited") <=> (closeCount = 1))

\* A run in which lines were dispatched, true was then received, the loop
\* closed the handle once and the caller saw the closure.
C1_Witness ==
    /\ callerPc = "done"
    /\ exitCause = "shutdown"
    /\ closeCount = 1
    /\ Len(dispatched) >= 1
    /\ readerPc = "send"

\* The requirements on one definition, and on a table.
WellFormed(c) ==
    /\ c.NmLong # <<>>
    /\ c.Help # <<>>
    /\ c.Parse # "nil"
    /\ c.Run # "nil"
    /\ Len(c.NmShort) <= Len(c.NmLong)

TableOk(defs) == Len(defs) > 0 /\ \A i \in 1..Len(defs) : WellFormed(defs[i])

\* C2: Start returns a handle and no error, and has launched exactly one
\* dispatch loop, exactly when the table is non-empty and all its
\* definitions are well-formed, whatever the line source holds; otherwise
\* it returns no handle and an error, launches nothing, and no Parse or
\* Run is ever invoked.
C2_StartOutcome ==
    callerPc # "start" =>
        /\ (shutdown = "chan" /\ err.isNil /\ spawned = 1) <=> TableOk(cds)
        /\ ~TableOk(cds) =>
              /\ shutdown = "nil" /\ ~err.isNil
              /\ spawned = 0 /\ loopPc = "none" /\ readerPc = "none"
              /\ shutdownCh = "none" /\ calls = <<>>
        /\ spawned <= 1

\* Start has returned a handle and the loop is waiting, on a line source
\* that holds nothing and never ends.
C2_Witness ==
    /\ callerPc = "running" /\ shutdown = "chan" /\ err.isNil
    /\ spawned = 1 /\ loopPc = "select"
    /\ source = <<>> /\ ~srcEnds

\* A table refused for one malformed definition among good ones.
C2_WitnessRejected ==
    /\ callerPc = "failed" /\ Len(cds) = 2 /\ WellFormed(cds[1])

\* A step in which cmdParseRun returns with a failure of the line.
LineFailed ==
    /\ Len(outcomes') = Len(outcomes) + 1
    /\ outcomes'[Len(outcomes')] \in {"unknown", "parseErr", "runErr"}

\* A step in which the reader's send of a line completes.
LineHandedOver == readerPc = "send" /\ readerPc' = "read"

\* C3: a step in which a line fails (unknown command, Parse error, Run
\* error) leaves the loop running at its select with the handle open; and
\* when the last line failed, a line the reader holds can be received and
\* the step that receives it dispatches it.
C3_FailureNotFatal ==
    [][/\ LineFailed =>
            (loopPc' = "select" /\ shutdownCh' = "open" /\ closeCount' = 0)
       /\ (/\ outcomes # <<>>
           /\ outcomes[Len(outcomes)] # "ok"
           /\ Len(outcomes) = Len(dispatched)
           /\ readerPc = "send") =>
            /\ loopPc = "select" /\ shutdownCh = "open" => ENABLED processCmdLnLine
            /\ LineHandedOver =>
                 /\ dispatched' = Append(dispatched, cmdLn)
                 /\ loopPc' = "parse" \/ Len(outcomes') = Len(dispatched')]_vars

\* A line whose Run failed was followed by a line that ran to the end.
C3_Witness ==
    /\ Len(outcomes) = 2
    /\ outcomes[1] = "runErr"
    /\ outcomes[2] = "ok"
    /\ shutdownCh = "open"

\* The newline-terminated lines of a stream, in order.
NewlinesOf(s) == {i \in 1..Len(s) : s[i] = NL}

LineStart(s, i) ==
    IF \E j \in NewlinesOf(s) : j < i
    THEN 1 + CHOOSE j \in NewlinesOf(s) : j < i /\ \A m \in NewlinesOf(s) : m < i => m <= j
    ELSE 1

LinesOf(s) ==
    LET n  == Cardinality(NewlinesOf(s))
        nl == CHOOSE f \in [1..n -> NewlinesOf(s)] : \A a, b \in 1..n : a < b => f[a] < f[b]
    IN [k \in 1..n |-> SubSeq(s, LineStart(s, nl[k]), nl[k])]

IsPrefix(a, b) == Len(a) <= Len(b) /\ \A i \in 1..Len(a) : a[i] = b[i]

\* C4: the lines dispatched so far are the first lines of the stream, in
\* the stream's order; and every Parse or Run invocation is followed in the
\* history by its own return before anything else happens, the line
\* numbers of the history never decrease, and every entry is about the line
\* in hand or one already finished.
C4_InOrderNoOverlap ==
    /\ IsPrefix(dispatched, LinesOf(source))
    /\ \A i \in 1..(Len(calls) - 1) :
         /\ calls[i].line <= calls[i + 1].line
         /\ calls[i].op = "Parse" =>
              calls[i + 1].op = "ParseRet" /\ calls[i + 1].line = calls[i].line
         /\ calls[i].op = "Run" =>
              calls[i + 1].op = "RunRet" /\ calls[i + 1].line = calls[i].line
    /\ \A i \in 1..Len(calls) :
         calls[i].op \in {"Parse", "ParseRet", "Run", "RunRet"} =>
             calls[i].line = Len(dispatched) \/ Len(outcomes) >= calls[i].line

\* Two different lines were dispatched and both ran to the end.
C4_Witness ==
    /\ Len(dispatched) = 2
    /\ dispatched[1] # dispatched[2]
    /\ outcomes = <<"ok", "ok">>

\* C5: on a stream that ends, a launched dispatch loop eventually
\* terminates with the handle closed, also when the caller never asks for
\* it; and when it terminates on the closed response channel, every
\* newline-terminated line of the stream has been dispatched and has run
\* to its end.
C5_SourceEndTerminates ==
    /\ (srcEnds /\ spawned = 1) ~> (loopPc = "exited" /\ shutdownCh = "closed")
    /\ [](exitCause = "closed" =>
            /\ dispatched = LinesOf(source)
            /\ Len(outcomes) = Len(dispatched)
            /\ shutdownCh = "closed")

\* The stream ended after its lines and some text without a newline, the
\* caller asked for nothing, and the loop has terminated.
C5_Witness ==
    /\ exitCause = "closed"
    /\ callerPc = "running"
    /\ probes = <<>>
    /\ Len(dispatched) = 2
    /\ source[Len(source)] # NL

\* A step in which the loop receives false from the handle.
FalseReceived == callerPc = "sendFalse" /\ callerPc' = "running"

\* A step in which processCmdLn returns.
LoopExits == loopPc # "exited" /\ loopPc' = "exited"

\* C6: the step that receives false leaves the loop at its select, the
\* handle open and everything else of the loop and the reader as it was;
\* after it, a line handed over is dispatched as before; and the loop
\* terminates only in a step that receives true or finds the response
\* channel closed.
C6_FalseIsNoOp ==
    [][/\ FalseReceived =>
            /\ loopPc = "select" /\ loopPc' = "select"
            /\ shutdownCh' = "open" /\ closeCount' = 0
            /\ UNCHANGED <<dispatched, outcomes, stderr, cur, readerPc, cmdLn,
                           respCh, src, exitCause>>
       /\ (probes # <<>> /\ LineHandedOver) =>
            /\ dispatched' = Append(dispatched, cmdLn)
            /\ loopPc' = "parse" \/ Len(outcomes') = Len(dispatched')
       /\ LoopExits =>
            \/ callerPc = "sendTrue" /\ callerPc' = "await"
            \/ respCh = "closed"]_vars

\* A false was received, and a line dispatched after it ran to the end.
C6_Witness ==
    \E i \in 1..Len(probes) : \E j \in 1..Len(calls) :
        /\ calls[j].op = "RunRet"
        /\ calls[j].line = probes[i] + 1
        /\ shutdownCh = "open"

CallsOf(op, k) == {i \in 1..Len(calls) : calls[i].op = op /\ calls[i].line = k}

\* C10: for every dispatched line at most one Parse and one Run are
\* invoked; Parse is invoked on an entry that answers to the line's
\* normalised name, and never for a line reported as unknown; Run is invoked
\* only right after the Parse of the same line and entry returned without
\* error, and with the arguments that Parse returned.
C10_Pipeline ==
    \A k \in 1..Len(dispatched) :
        /\ Cardinality(CallsOf("Parse", k)) <= 1
        /\ Cardinality(CallsOf("Run", k)) <= 1
        /\ (k <= Len(outcomes) /\ outcomes[k] = "unknown") =>
              CallsOf("Parse", k) = {} /\ CallsOf("Run", k) = {}
        /\ \A i \in CallsOf("Parse", k) :
              /\ calls[i].cmd \in 1..Len(cmmds)
              /\ cmdMatches(cmmds[calls[i].cmd], cmdNormalize(dispatched[k]).cmdNm)
        /\ \A j \in CallsOf("Run", k) :
              /\ j >= 3
              /\ calls[j - 1].op = "ParseRet" /\ calls[j - 1].line = k
              /\ calls[j - 1].ok
              /\ calls[j - 1].args = calls[j].args
              /\ calls[j - 2].op = "Parse" /\ calls[j - 2].line = k
              /\ calls[j - 2].cmd = calls[j].cmd
        /\ (k <= Len(outcomes) /\ outcomes[k] = "parseErr") => CallsOf("Run", k) = {}

\* One line was rejected by its parser, and the next was run with the
\* argument its parser returned.
C10_Witness ==
    /\ Len(outcomes) = 2
    /\ outcomes[1] = "parseErr"
    /\ \E j \in CallsOf("Run", 2) : calls[j].args = <<<<"x">>>>

\* A string without its leading and trailing white space.
Stripped(s) ==
    LET ns == {i \in 1..Len(s) : ~IsSpace(s[i])} IN
    IF ns = {} THEN <<>>
    ELSE SubSeq(s, CHOOSE a \in ns : \A b \in ns : a <= b,
                   CHOOSE a \in ns : \A b \in ns : b <= a)

Lowered(s) == [i \in 1..Len(s) |-> LowerChar(s[i])]

\* The least member of a non-empty set of positions; 0 for the empty set.
Least(ps) == IF ps = {} THEN 0 ELSE CHOOSE a \in ps : \A b \in ps : a <= b

\* The position of the first space of s, and of its first white-space
\* character of any kind; 0 if there is none.
FirstSpace(s) == Least({i \in 1..Len(s) : s[i] = SP})

FirstWhitespace(s) == Least({i \in 1..Len(s) : IsSpace(s[i])})

\* The name and the remainder of a trimmed line t cut at position i.
CutAt(t, i) ==
    IF i = 0 THEN [cmdNm |-> Lowered(t), cmdArg |-> <<>>]
    ELSE [cmdNm  |-> Lowered(Stripped(SubSeq(t, 1, i - 1))),
          cmdArg |-> Stripped(SubSeq(t, i + 1, Len(t)))]

\* C7 as claimed: normalize trims the line, splits it at its first run of
\* white space of any kind, lower-cases the first token and trims the rest.
C7_SplitsAtWhitespace ==
    fnPc # "line" =>
        fnOut.norm = CutAt(Stripped(fnLine), FirstWhitespace(Stripped(fnLine)))

\* C7 as amended: normalize trims the line of white space and splits it at
\* its first space character only: the text before that space, trimmed and
\* lower-cased, is the command name, the text after it, trimmed, is the
\* remainder, and a line without a space is all command name.  The example
\* line gives "run" and "Away".
C7_SplitsAtSpace ==
    fnPc # "line" =>
        /\ fnOut.norm = CutAt(Stripped(fnLine), FirstSpace(Stripped(fnLine)))
        /\ fnLine = ExampleLine =>
              fnOut.norm = [cmdNm |-> <<"r", "u", "n">>, cmdArg |-> <<"A", "w", "a", "y">>]

\* The example line has been normalised.
C7_Witness ==
    /\ fnPc = "normalized"
    /\ fnLine = ExampleLine
    /\ fnOut.norm.cmdNm = <<"r", "u", "n">>

\* The first token of a line: the text before its first space, trimmed.
FirstToken(line) ==
    LET t == Stripped(line)
        i == FirstSpace(t)
    IN IF i = 0 THEN t ELSE Stripped(SubSeq(t, 1, i - 1))

CaseVariant(a, b) ==
    Len(a) = Len(b) /\ \A i \in 1..Len(a) : LowerChar(a[i]) = LowerChar(b[i])

\* A name that can stand as a token: not empty and free of white space.
IsToken(nm) == nm # <<>> /\ \A i \in 1..Len(nm) : ~IsSpace(nm[i])

NamesOf(c) == {c.NmShort, c.NmLong}

\* The line names nm: its first token is nm in some mix of cases.
LineNames(line, nm) == IsToken(nm) /\ CaseVariant(FirstToken(line), nm)

\* C8: for a table that passed validation, a line whose first token is a
\* registered short or long name in any mix of upper and lower case selects
\* an entry of the table, one that carries that name up to case, and is
\* never reported as unknown.
C8_CaseInsensitive ==
    (fnPc = "selected" /\ fnOut.valid) =>
        \A i \in 1..Len(fnTable) : \A nm \in NamesOf(fnTable[i]) :
            LineNames(fnLine, nm) =>
                /\ fnOut.idx \in 1..Len(fnTable)
                /\ \E m \in NamesOf(fnTable[fnOut.idx]) : CaseVariant(m, nm)

\* A line naming a registered name in another case was looked up and found.
C8_Witness ==
    /\ fnPc = "selected" /\ fnOut.valid /\ fnOut.idx > 0
    /\ \E i \in 1..Len(fnTable) : \E nm \in NamesOf(fnTable[i]) :
          /\ LineNames(fnLine, nm)
          /\ FirstToken(fnLine) # nm
          /\ nm # Lowered(nm)

\* C9 as claimed: the string handed to Parse has no leading and no trailing
\* space, its command name is in lower case, and when a space follows the
\* name exactly one does.
C9_ParseInputNormalized ==
    \A i \in 1..Len(calls) :
        calls[i].op = "Parse" =>
            LET s  == calls[i].cmdln
                sp == FirstSpace(s)
            IN /\ s # <<>>
               /\ s[1] # SP
               /\ s[Len(s)] # SP
               /\ \A j \in 1..Len(s) : (sp = 0 \/ j < sp) => LowerChar(s[j]) = s[j]
               /\ (sp > 0 /\ sp < Len(s)) => s[sp + 1] # SP

\* Entry c is registered under nm: nm is its short or its long name in
\* lower case.
Registered(c, nm) == Lowered(c.NmShort) = nm \/ Lowered(c.NmLong) = nm

\* The entries of the table under lookup registered under the name looked up.
MatchingEntries ==
    {i \in 1..Len(fnTable) : Registered(fnTable[i], fnOut.norm.cmdNm)}

\* C11: the lookup of a name in a validated table returns the earliest entry
\* of the table registered under that name, and fails exactly when no entry
\* is registered under it.
C11_FirstMatchWins ==
    (fnPc = "selected" /\ fnOut.valid) =>
        /\ fnOut.idx = 0 <=> MatchingEntries = {}
        /\ MatchingEntries # {} => fnOut.idx = Least(MatchingEntries)

\* Two entries are registered under the name looked up; the first was
\* returned.
C11_Witness ==
    /\ fnPc = "selected" /\ fnOut.valid
    /\ MatchingEntries = {1, 2}
    /\ fnOut.idx = 1

\* C12: normalising the normalised name and remainder, joined by one
\* space, gives the same name and remainder again.
C12_NormalizeIdempotent ==
    fnPc = "renormalized" => fnOut.again = fnOut.norm

\* A line that normalisation changed, with a name and no remainder, was
\* normalised twice.
C12_Witness ==
    /\ fnPc = "renormalized"
    /\ fnOut.norm.cmdNm # <<>>
    /\ fnOut.norm.cmdArg = <<>>
    /\ ParseInput(fnOut.norm) # fnLine

\* A line with a remainder, and a blank line, were normalised twice.
C12_WitnessRemainder ==
    /\ fnPc = "renormalized"
    /\ fnOut.norm.cmdArg # <<>>
    /\ ParseInput(fnOut.norm) # fnLine

---------------------------------------------------------------------------
(* The validation specification: validate, as start calls it, applied to   *)
(* the tables of the process specification and to every table of two       *)
(* definitions that are sound or break any of the requirements.            *)

ValDefs ==
    { Def(s, l, h, p, "user") :
        s \in {<<>>, sr}, l \in {<<>>, sx},
        h \in {<<>>, sHelpText}, p \in {"nil", "user"} }

ValTables == Tables \cup { <<a, b>> : a \in ValDefs, b \in ValDefs }

ValInit ==
    /\ ProcInit
    /\ fnLine = <<>>
    /\ fnTable \in ValTables
    /\ fnPc = "table"
    /\ fnOut = NoOut

\* start, first statement: cs, err = validate(cds).
FnValidate ==
    /\ fnPc = "table"
    /\ LET v == validate(fnTable) IN
       fnOut' = [fnOut EXCEPT !.valid = v.errs.isNil,
                              !.errs = v.errs,
                              !.csNil = v.cs.isNil]
    /\ fnPc' = "validated"
    /\ UNCHANGED <<fnLine, fnTable, procVars>>

\* start, the rest: return nil, err on an error; otherwise the loop is
\* launched on the table.
FnStart ==
    /\ fnPc = "validated"
    /\ fnPc' = IF fnOut.errs.isNil THEN "launched" ELSE "refused"
    /\ UNCHANGED <<fnLine, fnTable, fnOut, procVars>>

ValNext == FnValidate \/ FnStart

ValSpec == ValInit /\ [][ValNext]_vars

\* The five requirements on a definition, by the report of their violation.
Requirements ==
    {"long name missing", "short name too long", "Parse missing",
     "Run missing", "Help missing"}

\* Definition c violates requirement kind, each requirement taken by itself.
Violates(c, kind) ==
    CASE kind = "long name missing"   -> c.NmLong = <<>>
      [] kind = "short name too long" -> Len(c.NmShort) > Len(c.NmLong)
      [] kind = "Parse missing"       -> c.Parse = "nil"
      [] kind = "Run missing"         -> c.Run = "nil"
      [] kind = "Help missing"        -> c.Help = <<>>

\* The same, with the length of the short name held against the long name
\* only when there is a long name.
ViolatesNamed(c, kind) ==
    IF kind = "short name too long"
    THEN c.NmLong # <<>> /\ Len(c.NmShort) > Len(c.NmLong)
    ELSE Violates(c, kind)

\* How element i of the table is named in a report: by its long name or,
\* without one, by its index, counted from 0.
RefOf(defs, i) == IF defs[i].NmLong = <<>> THEN Itoa(i - 1) ELSE defs[i].NmLong

\* How often the combined error reports kind about ref.
ReportsOf(e, kind, ref) ==
    Cardinality({k \in 1..Len(e.text) : e.text[k] = [kind |-> kind, ref |-> ref]})

\* Every report about a requirement names an element of the table.
ReportsNameElements ==
    \A k \in 1..Len(fnOut.errs.text) :
        fnOut.errs.text[k].kind \in Requirements =>
            \E i \in 1..Len(fnTable) : fnOut.errs.text[k].ref = RefOf(fnTable, i)

\* C13 as claimed: the combined error of validate holds exactly one report
\* for every requirement that an element of the table violates, the five
\* requirements taken independently, under the element's long name or index.
C13_EveryViolationReported ==
    fnPc = "validated" =>
        /\ ReportsNameElements
        /\ \A kind \in Requirements : \A i \in 1..Len(fnTable) :
              ReportsOf(fnOut.errs, kind, RefOf(fnTable, i)) =
                  Cardinality({j \in 1..Len(fnTable) :
                                 /\ RefOf(fnTable, j) = RefOf(fnTable, i)
                                 /\ Violates(fnTable[j], kind)})

\* C13 as amended: the same, except that a short name is held against the
\* long name only for an element that has a long name; for an element
\* without one the missing long name is reported and the length of its short
\* name is not.
C13_ViolationsReported ==
    fnPc = "validated" =>
        /\ ReportsNameElements
        /\ \A kind \in Requirements : \A i \in 1..Len(fnTable) :
              ReportsOf(fnOut.errs, kind, RefOf(fnTable, i)) =
                  Cardinality({j \in 1..Len(fnTable) :
                                 /\ RefOf(fnTable, j) = RefOf(fnTable, i)
                                 /\ ViolatesNamed(fnTable[j], kind)})

\* A table of two elements was validated, each violating two or more
\* requirements, the first without a long name.
C13_Witness ==
    /\ fnPc = "validated"
    /\ Len(fnTable) = 2
    /\ fnTable[1].NmLong = <<>>
    /\ \A i \in 1..2 :
          Cardinality({kind \in Requirements : ViolatesNamed(fnTable[i], kind)}) >= 2
    /\ Len(fnOut.errs.text) >= 4

\* C14 as claimed: validate returns a nil table whenever it returns an
\* error, and a table only together with a nil error.
C14_NilTableOnError ==
    fnPc = "validated" =>
        /\ ~fnOut.errs.isNil => fnOut.csNil
        /\ ~fnOut.csNil => fnOut.errs.isNil

\* A step that closes the response channel.
RespCloses == respCloses' # respCloses \/ (respCh # "closed" /\ respCh' = "closed")

\* C15: the response channel is closed only by responseFetch, in the step
\* in which its read fails, and at most once; from then on responseFetch
\* has returned: it reads nothing more and hands over no line, so it is
\* never at its send with the channel closed, whatever the caller and the
\* loop do.
C15_ReaderClosesOnce ==
    /\ [](/\ respCloses <= 1
          /\ respCh = "closed" <=> respCloses = 1
          /\ respCh = "closed" <=> readerPc = "done"
          /\ ~(readerPc = "send" /\ respCh = "closed"))
    /\ [][/\ RespCloses =>
               /\ readerPc = "read" /\ ReadString(src).failed
               /\ readerPc' = "done"
          /\ respCh = "closed" =>
               /\ UNCHANGED <<src, cmdLn, readerPc, respCh, respCloses>>
               /\ dispatched' = dispatched]_vars

\* The loop returned on a shutdown request after dispatching a line, and
\* the reader then met the end of the stream and closed the channel.
C15_Witness ==
    /\ respCh = "closed" /\ respCloses = 1 /\ readerPc = "done"
    /\ exitCause = "shutdown"
    /\ Len(dispatched) >= 1

\* The text of the stream after its last newline.
TailOf(s) ==
    SubSeq(s, 1 + Least({i \in 0..Len(s) : \A j \in NewlinesOf(s) : j <= i}), Len(s))

\* C16: every line dispatched ends in its newline and is one of the
\* newline-terminated lines of the stream, so the lines dispatched never
\* outnumber the newlines of the stream; what Parse is given is the normal
\* form of such a line and what Run is given is what Parse made of it.  The
\* text after the last newline is in none of them.
C16_OnlyTerminatedLines ==
    /\ Len(dispatched) <= Cardinality(NewlinesOf(source))
    /\ \A i \in 1..Len(dispatched) :
          /\ dispatched[i] # <<>>
          /\ dispatched[i][Len(dispatched[i])] = NL
          /\ dispatched[i] = LinesOf(source)[i]
    /\ \A k \in 1..Len(calls) :
          /\ calls[k].line \in 1..Len(dispatched)
          /\ calls[k].op = "Parse" =>
                calls[k].cmdln = ParseInput(cmdNormalize(dispatched[calls[k].line]))
          /\ calls[k].op = "Run" =>
                calls[k].args \in {<<>>, <<cmdNormalize(dispatched[calls[k].line]).cmdArg>>}

\* The stream ended in text without a newline, which names a command of the
\* table; the reader met the end and every line before it was dispatched.
C16_Witness ==
    /\ readerPc = "done"
    /\ TailOf(source) = sr
    /\ cmdSelect(cmmds, TailOf(source)).idx > 0
    /\ Len(dispatched) >= 1
    /\ Len(dispatched) = Cardinality(NewlinesOf(source))

\* C17: with the handle closed the loop has returned, and no later step
\* takes a line from the reader, calls Parse or Run, reports anything or
\* reopens the handle.
C17_TerminatedForGood ==
    /\ [](shutdownCh = "closed" => loopPc = "exited")
    /\ [][shutdownCh = "closed" =>
             /\ loopPc' = "exited"
             /\ UNCHANGED <<dispatched, calls, outcomes, stderr, cur,
                            shutdownCh, closeCount>>
             /\ ~(readerPc = "send" /\ readerPc' # "send")]_vars

\* The handle is closed on the caller's request, confirmed by the caller,
\* while the reader holds a line it has not handed over.
C17_Witness ==
    /\ shutdownCh = "closed"
    /\ callerPc = "done"
    /\ readerPc = "send"
    /\ Len(dispatched) >= 1

\* C18 as claimed: the send of true by a caller that has sent nothing
\* before ends in one way only: the loop, at its select with the handle
\* open, receives it.
C18_SendReceivedByRunningLoop ==
    [][(callerPc = "sendTrue" /\ probes = <<>> /\ callerPc' # "sendTrue") =>
           /\ callerPc' = "await"
           /\ loopPc = "select"
           /\ shutdownCh = "open"]_vars

\* C19 as claimed: on a stream that ends, a launched reader eventually
\* meets the end, closes the response channel and returns, also when the
\* caller asks for a shutdown.
C19_ReaderTerminates ==
    (srcEnds /\ readerPc # "none") ~> (readerPc = "done" /\ respCh = "closed")

\* C20 as claimed: a dispatched line that is blank, so that its command
\* name is empty, ends as an unknown command, and neither Parse nor Run is
\* called for it.
C20_BlankLineUnknown ==
    \A i \in 1..Len(dispatched) :
        cmdNormalize(dispatched[i]).cmdNm = <<>> =>
            /\ i <= Len(outcomes) => outcomes[i] = "unknown"
            /\ \A k \in 1..Len(calls) : calls[k].line # i

=============================================================================
